---- MODULE Spec2Model ----
(***************************************************************************)
(* TimezoneTodSensorCore (custom_components/timezonetod/entity.py): the    *)
(* boundary-resolution and transition-scheduling engine of one sensor.     *)
(*                                                                         *)
(* Instants are integers: seconds since 00:00 UTC of calendar date 0.      *)
(* Calendar dates are integers (day numbers).  An Optional value is a      *)
(* sequence of length 0 (None) or 1 (the value).  A time zone is named by  *)
(* its IANA key; the zones of ZoneTable have a fixed UTC offset over the   *)
(* dates modelled.  All datetimes are timezone-aware.                      *)
(***************************************************************************)
EXTENDS Integers, Sequences, FiniteSets, TLC

VARIABLES
    is_child,                 \* self._is_child
    configured_start,         \* self._configured_start      (Optional spec)
    configured_end,           \* self._configured_end        (Optional spec)
    start_offset,             \* self._start_offset          (seconds)
    end_offset,               \* self._end_offset            (seconds)
    start_ref,                \* self._start_ref
    end_ref,                  \* self._end_ref
    configured_timezone_str,  \* self._configured_timezone_str (Optional name)
    resolved_timezone_str,    \* self._resolved_timezone_str   (Optional name)
    calculated_start_utc,     \* self._calculated_start_utc    (Optional instant)
    calculated_end_utc,       \* self._calculated_end_utc      (Optional instant)
    next_update_utc,          \* self._next_update_utc         (Optional instant)
    default_timezone,         \* the host's default time zone, passed to every call
    sun_event_callback,       \* the host's solar callback, passed to every call (Optional)
    last,                     \* Optional record of the latest update_boundaries call
    lifecycle,                \* the entity in Home Assistant: "created", "added", "removed"
    unsub_update,             \* self._unsub_update   (Optional handle: the instant armed)
    unsub_debounce,           \* self._unsub_debounce (Optional handle: the event number)
    point_timers,             \* armed async_track_point_in_utc_time timers (instants)
    call_later,               \* armed async_call_later timers (event numbers)
    tasks,                    \* update tasks created and not yet run
    listening,                \* the parent state-change listener is registered
    parent_state,             \* hass.states.get(parent_entity_id): Optional attributes
    utcnow,                   \* dt_util.utcnow()
    ha_state,                 \* the state the entity wrote last (Optional)
    cancelled,                \* the timer cancelled last while armed (Optional instant)
    debounce_fate,            \* per parent event: "unheard", "pending", "cancelled", "fired"
    entries,                  \* the config entries of the integration, in creation order
    flows,                    \* the config flows: step shown, self._data, last root input
    search                    \* the locals of a root update_boundaries call in progress (Optional)

config == <<is_child, configured_start, configured_end, start_offset, end_offset,
            start_ref, end_ref, configured_timezone_str>>

computed == <<resolved_timezone_str, calculated_start_utc, calculated_end_utc,
              next_update_utc>>

host == <<default_timezone, sun_event_callback>>

wrapper == <<lifecycle, unsub_update, unsub_debounce, point_timers, call_later, tasks,
             listening, parent_state, utcnow, ha_state, cancelled, debounce_fate>>

flow == <<entries, flows>>

vars == <<config, computed, host, last, wrapper, flow, search>>

----------------------------------------------------------------------------
(* Optional values and Python truthiness *)

None == <<>>

Some(x) == <<x>>

IsNone(o) == o = <<>>

Get(o) == o[1]

\* A dict of Optional values: a key that is absent holds None, as a key whose
\* value is None does; dict.get(key) cannot tell them apart
DictGet(d, key) == d[key]

\* `not d` for an Optional dict: None and the dict with no key are falsy
DictFalsy(o) == IsNone(o) \/ \A key \in DOMAIN Get(o) : IsNone(Get(o)[key])

\* as StrFalsy, with every string taken as falsy
StrFalsy_always(o) == TRUE

\* `not x` for an Optional string: None and "" are falsy
StrFalsy(o) == IsNone(o) \/ Get(o) = ""

----------------------------------------------------------------------------
(* Time *)

Hour == 60 * 60

Day == 24 * Hour

\* zoneinfo.ZoneInfo(key): the UTC offset (hours) of the zones known here
ZoneTable ==
    [z \in {"UTC", "Asia/Dhaka", "America/Regina", "America/New_York"} |->
        CASE z = "UTC" -> 0
          [] z = "Asia/Dhaka" -> 6
          [] z = "America/Regina" -> 0 - 6
          [] z = "America/New_York" -> 0 - 5]

\* ZoneInfo(key) raising ZoneInfoNotFoundError / ValueError is None
ZoneInfo(key) == IF key \in DOMAIN ZoneTable THEN Some(key) ELSE None

utcoffset(tz) == ZoneTable[tz] * Hour

\* now_utc.astimezone(tz).date()
LocalDate(now_utc, tz) == (now_utc + utcoffset(tz)) \div Day

\* datetime.combine(ref_date, t).replace(tzinfo=tz).astimezone(UTC)
LocalToUtc(ref_date, secs, tz) == ref_date * Day + secs - utcoffset(tz)

----------------------------------------------------------------------------
(* Time specifications.  A spec string is held as the list of its          *)
(* colon-separated parts (config_val.split(":")); int(p) is IntLiteral.    *)

IntLiterals ==
    [p \in {"00", "06", "08", "10", "22", "25", "60", "-1"} |->
        CASE p = "00" -> 0
          [] p = "06" -> 6
          [] p = "08" -> 8
          [] p = "10" -> 10
          [] p = "22" -> 22
          [] p = "25" -> 25
          [] p = "60" -> 60
          [] p = "-1" -> 0 - 1]

\* int(p): None stands for ValueError
ParseInt(p) == IF p \in DOMAIN IntLiterals THEN Some(IntLiterals[p]) ELSE None

\* datetime.time(h, m, s): seconds since midnight, None for ValueError
TimeOfDay(h, m, s) ==
    IF h \in 0..23 /\ m \in 0..59 /\ s \in 0..59
    THEN Some(h * Hour + m * 60 + s)
    ELSE None

----------------------------------------------------------------------------
(* Solar-event callbacks.  A callable is named; CallSun applies it.        *)

\* The first calendar date of the instants explored
Day0 == 10

\* A date for which "polar_sun_callback" has no sunrise and no sunset
NoSunDate == Day0 + 1

\* sun_callback(config_val, ref_date): Optional instant
CallSun(sun_callback, event, ref_date) ==
    CASE sun_callback = "mock_sun_callback" ->
             IF event = "sunrise" THEN Some(ref_date * Day + 6 * Hour)
             ELSE IF event = "sunset" THEN Some(ref_date * Day + 18 * Hour)
             ELSE None
      [] sun_callback = "polar_sun_callback" ->
             IF ref_date = NoSunDate THEN None
             ELSE IF event = "sunrise" THEN Some(ref_date * Day + 6 * Hour)
             ELSE IF event = "sunset" THEN Some(ref_date * Day + 18 * Hour)
             ELSE None
      [] OTHER -> None

----------------------------------------------------------------------------
(* _resolve_time: None stands for the ValueError it raises *)

\* as resolve_clock_time, with the parts passed to datetime.time as they come
\* (time(*parts)): one to four fields are taken
resolve_clock_time_splat(parts, ref_date, tz) ==
    LET ints == [i \in DOMAIN parts |-> ParseInt(parts[i])]
        t == IF \E i \in DOMAIN ints : IsNone(ints[i]) THEN None
             ELSE IF Len(parts) = 1 THEN TimeOfDay(Get(ints[1]), 0, 0)
             ELSE IF Len(parts) = 2
                  THEN TimeOfDay(Get(ints[1]), Get(ints[2]), 0)
             ELSE IF Len(parts) \in {3, 4}
                  THEN TimeOfDay(Get(ints[1]), Get(ints[2]), Get(ints[3]))
             ELSE None
    IN  IF IsNone(t) THEN None ELSE Some(LocalToUtc(ref_date, Get(t), tz))

\* the clock-time branch: parts -> datetime.time -> UTC instant
resolve_clock_time(parts, ref_date, tz) ==
    LET ints == [i \in DOMAIN parts |-> ParseInt(parts[i])]
        t == IF \E i \in DOMAIN ints : IsNone(ints[i]) THEN None
             ELSE IF Len(parts) = 2
                  THEN TimeOfDay(Get(ints[1]), Get(ints[2]), 0)
             ELSE IF Len(parts) = 3
                  THEN TimeOfDay(Get(ints[1]), Get(ints[2]), Get(ints[3]))
             ELSE None
    IN  IF IsNone(t) THEN None ELSE Some(LocalToUtc(ref_date, Get(t), tz))

\* as resolve_time, with local midnight returned where the solar branch raises
resolve_time_no_raise(config_val, ref_date, tz, sun_callback) ==
    IF config_val \in {<<"sunrise">>, <<"sunset">>}
    THEN IF IsNone(sun_callback) THEN Some(LocalToUtc(ref_date, 0, tz))
         ELSE IF IsNone(CallSun(Get(sun_callback), config_val[1], ref_date))
              THEN Some(LocalToUtc(ref_date, 0, tz))
         ELSE CallSun(Get(sun_callback), config_val[1], ref_date)
    ELSE resolve_clock_time(config_val, ref_date, tz)

resolve_time(config_val, ref_date, tz, sun_callback) ==
    IF config_val \in {<<"sunrise">>, <<"sunset">>}
    THEN IF IsNone(sun_callback) THEN None
         ELSE CallSun(Get(sun_callback), config_val[1], ref_date)
    ELSE resolve_clock_time(config_val, ref_date, tz)

----------------------------------------------------------------------------
(* update_boundaries, root logic *)

\* as get_window, with the offsets left out
get_window_no_offsets(ref_date, tz, sun_cb) ==
    IF IsNone(configured_start) \/ IsNone(configured_end) THEN None
    ELSE LET s0 == resolve_time(Get(configured_start), ref_date, tz, sun_cb)
             e0 == resolve_time(Get(configured_end), ref_date, tz, sun_cb)
         IN  IF IsNone(s0) \/ IsNone(e0) THEN None
             ELSE Some([s |-> Get(s0),
                        e |-> IF Get(e0) <= Get(s0) THEN Get(e0) + Day ELSE Get(e0)])

\* get_window(ref_date): Optional [s, e]; None stands for ValueError
get_window(ref_date, tz, sun_cb) ==
    IF IsNone(configured_start) \/ IsNone(configured_end) THEN None
    ELSE LET s0 == resolve_time(Get(configured_start), ref_date, tz, sun_cb)
             e0 == resolve_time(Get(configured_end), ref_date, tz, sun_cb)
         IN  IF IsNone(s0) \/ IsNone(e0) THEN None
             ELSE LET s == Get(s0) + start_offset
                      e == Get(e0) + end_offset
                  IN  Some([s |-> s, e |-> IF e <= s THEN e + Day ELSE e])

\* range(365)
MaxAdvance == 365

\* the window the for loop holds after n advances from target_date is the one
\* it ends with: the advances are used up, or get_window has raised (None), or
\* now_utc is before the window's end (break)
loop_ends(now_utc, target_date, n, tz, sun_cb) ==
    \/ n = MaxAdvance
    \/ IsNone(get_window(target_date + n, tz, sun_cb))
    \/ now_utc < Get(get_window(target_date + n, tz, sun_cb)).e

\* as the for loop, with no advance made
forward_search_stuck(now_utc, target_date, tz, sun_cb) ==
    IF IsNone(get_window(target_date, tz, sun_cb)) THEN None
    ELSE Some([date |-> target_date,
               s |-> Get(get_window(target_date, tz, sun_cb)).s,
               e |-> Get(get_window(target_date, tz, sun_cb)).e])

\* what the for loop leaves with `window` for current_ref_date: None when
\* get_window has raised, else [date, s, e]
loop_result(current_ref_date, window) ==
    IF IsNone(window) THEN None
    ELSE Some([date |-> current_ref_date, s |-> Get(window).s, e |-> Get(window).e])

\* the first get_window call and the for loop: Optional [date, s, e] of the
\* window held after the least number of advances the loop ends with.  The
\* number of advances and the window are each computed once.
forward_search(now_utc, target_date, tz, sun_cb) ==
    LET advances == {CHOOSE n \in 0..MaxAdvance :
                        /\ loop_ends(now_utc, target_date, n, tz, sun_cb)
                        /\ \A m \in 0..(n - 1) :
                               ~loop_ends(now_utc, target_date, m, tz, sun_cb)}
    IN  CHOOSE found \in
            UNION {{loop_result(target_date + n, window) :
                       window \in {get_window(target_date + n, tz, sun_cb)}} :
                   n \in advances} : TRUE

\* as the check of the previous day's window, with that window never preferred
previous_window_ignored(now_utc, found, tz, sun_cb) ==
    LET prev == get_window(found.date - 1, tz, sun_cb)
    IN  IF IsNone(prev) THEN None
        ELSE Some([s |-> found.s, e |-> found.e])

\* the check of the previous day's window, made when now_utc < start_utc
previous_window(now_utc, found, tz, sun_cb) ==
    LET prev == get_window(found.date - 1, tz, sun_cb)
    IN  IF IsNone(prev) THEN None
        ELSE IF Get(prev).s <= now_utc /\ now_utc < Get(prev).e
        THEN prev
        ELSE Some([s |-> found.s, e |-> found.e])

\* the lines after the for loop, with what it has found: Optional [s, e]
after_search(now_utc, found, tz, sun_cb) ==
    IF IsNone(found) THEN None
    ELSE IF now_utc < Get(found).s
    THEN previous_window(now_utc, Get(found), tz, sun_cb)
    ELSE Some([s |-> Get(found).s, e |-> Get(found).e])

\* the try block up to the assignments: Optional [s, e]
root_window(now_utc, tz, sun_cb) ==
    CHOOSE w \in {after_search(now_utc, found, tz, sun_cb) :
                     found \in {forward_search(now_utc, LocalDate(now_utc, tz),
                                               tz, sun_cb)}} : TRUE

----------------------------------------------------------------------------
(* The Computed State as a record, so that the assignments of one call are *)
(* applied in the order the code makes them.                               *)

Self ==
    [resolved_timezone_str |-> resolved_timezone_str,
     calculated_start_utc  |-> calculated_start_utc,
     calculated_end_utc    |-> calculated_end_utc,
     next_update_utc       |-> next_update_utc]

\* as _calculate_next_update, with the fallback measured from the end boundary
calculate_next_update_from_end(self, now_utc) ==
    IF IsNone(self.calculated_start_utc) \/ IsNone(self.calculated_end_utc)
    THEN [self EXCEPT !.next_update_utc = None]
    ELSE IF now_utc < Get(self.calculated_start_utc)
    THEN [self EXCEPT !.next_update_utc = self.calculated_start_utc]
    ELSE IF now_utc < Get(self.calculated_end_utc)
    THEN [self EXCEPT !.next_update_utc = self.calculated_end_utc]
    ELSE [self EXCEPT !.next_update_utc = Some(Get(self.calculated_end_utc) + Day)]

\* _calculate_next_update(now_utc)
calculate_next_update(self, now_utc) ==
    IF IsNone(self.calculated_start_utc) \/ IsNone(self.calculated_end_utc)
    THEN [self EXCEPT !.next_update_utc = None]
    ELSE IF now_utc < Get(self.calculated_start_utc)
    THEN [self EXCEPT !.next_update_utc = self.calculated_start_utc]
    ELSE IF now_utc < Get(self.calculated_end_utc)
    THEN [self EXCEPT !.next_update_utc = self.calculated_end_utc]
    ELSE [self EXCEPT !.next_update_utc = Some(Get(self.calculated_start_utc) + Day)]

\* as is_on, with the end instant inside the interval
is_on_closed(now_utc) ==
    IF IsNone(calculated_start_utc) \/ IsNone(calculated_end_utc)
    THEN FALSE
    ELSE Get(calculated_start_utc) <= now_utc /\ now_utc <= Get(calculated_end_utc)

\* is_on(now_utc)
is_on(now_utc) ==
    IF IsNone(calculated_start_utc) \/ IsNone(calculated_end_utc)
    THEN FALSE
    ELSE Get(calculated_start_utc) <= now_utc /\ now_utc < Get(calculated_end_utc)

----------------------------------------------------------------------------
(* update_boundaries, child logic.  A timestamp string of the parent's     *)
(* attributes is [iso, instant]: datetime.fromisoformat parses it to       *)
(* `instant` when `iso`, and raises ValueError otherwise.                  *)

fromisoformat(str) == IF str.iso THEN Some(str.instant) ELSE None

\* as anchor, with the two references exchanged
anchor_exchanged(ref, p_start, p_end) == IF ref = "start" THEN p_end ELSE p_start

\* ref_s, ref_e: the parent boundary a child boundary is anchored to
anchor(ref, p_start, p_end) == IF ref = "start" THEN p_start ELSE p_end

\* as child_store, with the root logic's midnight-crossing correction applied
child_store_crossing(self, now_utc, p_start, p_end) ==
    LET ref_s == IF start_ref = "start" THEN p_start ELSE p_end
        ref_e == IF end_ref = "start" THEN p_start ELSE p_end
        s == ref_s + start_offset
        e == ref_e + end_offset
        self2 == [self EXCEPT !.calculated_start_utc = Some(s),
                              !.calculated_end_utc =
                                  Some(IF e <= s THEN e + Day ELSE e)]
    IN  IF Get(self2.calculated_end_utc) <= Get(self2.calculated_start_utc)
        THEN [ok |-> FALSE, self |-> self2]
        ELSE [ok |-> TRUE, self |-> calculate_next_update(self2, now_utc)]

\* the assignments of the child logic and the check that follows them: [ok, self]
child_store(self, now_utc, p_start, p_end) ==
    LET ref_s == anchor(start_ref, p_start, p_end)
        ref_e == anchor(end_ref, p_start, p_end)
        self2 == [self EXCEPT !.calculated_start_utc = Some(ref_s + start_offset),
                              !.calculated_end_utc = Some(ref_e + end_offset)]
    IN  IF Get(self2.calculated_end_utc) <= Get(self2.calculated_start_utc)
        THEN [ok |-> FALSE, self |-> self2]
        ELSE [ok |-> TRUE, self |-> calculate_next_update(self2, now_utc)]

\* section 2 of update_boundaries: [ok, self]
child_update(self, now_utc, parent_attributes) ==
    IF DictFalsy(parent_attributes)
    THEN [ok |-> FALSE, self |-> self]
    ELSE
    LET attrs == Get(parent_attributes)
        parent_tz_str == DictGet(attrs, "timezone")
        self1 == IF StrFalsy(parent_tz_str) THEN self
                 ELSE [self EXCEPT !.resolved_timezone_str = parent_tz_str]
        start_time_str == DictGet(attrs, "start_time_utc")
        end_time_str == DictGet(attrs, "end_time_utc")
    IN  IF IsNone(start_time_str) \/ IsNone(end_time_str)
        THEN [ok |-> FALSE, self |-> self1]
        ELSE
        LET p_start == fromisoformat(Get(start_time_str))
            p_end == fromisoformat(Get(end_time_str))
        IN  IF IsNone(p_start) \/ IsNone(p_end)
            THEN [ok |-> FALSE, self |-> self1]
            ELSE child_store(self1, now_utc, Get(p_start), Get(p_end))

\* as section 3, with the boundaries cleared when the calculation raises
root_update_clearing(self, now_utc, tz, sun_cb) ==
    LET w == root_window(now_utc, tz, sun_cb)
    IN  IF IsNone(w)
        THEN [ok |-> FALSE,
              self |-> [self EXCEPT !.calculated_start_utc = None,
                                    !.calculated_end_utc = None,
                                    !.next_update_utc = None]]
        ELSE [ok |-> TRUE,
              self |-> calculate_next_update(
                           [self EXCEPT !.calculated_start_utc = Some(Get(w).s),
                                        !.calculated_end_utc = Some(Get(w).e)],
                           now_utc)]

\* the end of section 3, with the window the try block has computed: [ok, self]
root_store(self, now_utc, w) ==
    IF IsNone(w) THEN [ok |-> FALSE, self |-> self]
    ELSE [ok |-> TRUE,
          self |-> calculate_next_update(
                       [self EXCEPT !.calculated_start_utc = Some(Get(w).s),
                                    !.calculated_end_utc = Some(Get(w).e)],
                       now_utc)]

\* section 3 of update_boundaries: [ok, self]
root_update(self, now_utc, tz, sun_cb) ==
    CHOOSE r \in {root_store(self, now_utc, w) :
                     w \in {root_window(now_utc, tz, sun_cb)}} : TRUE

\* as target_timezone, with the configured zone never used
target_timezone_default(default_tz) == default_tz

\* section 1 of update_boundaries: the zone the root logic computes in
target_timezone(default_tz) ==
    IF ~is_child /\ ~StrFalsy(configured_timezone_str)
    THEN LET z == ZoneInfo(Get(configured_timezone_str))
         IN  IF IsNone(z) THEN default_tz ELSE Get(z)
    ELSE default_tz

\* update_boundaries as a function of the instance and the arguments: [ok, self]
update_result(self, now_utc, default_tz, sun_cb, parent_attributes) ==
    LET self0 == IF ~is_child
                 THEN [self EXCEPT !.resolved_timezone_str =
                          IF StrFalsy(configured_timezone_str)
                          THEN Some(default_tz)
                          ELSE configured_timezone_str]
                 ELSE self
    IN  IF is_child
        THEN child_update(self0, now_utc, parent_attributes)
        ELSE root_update(self0, now_utc, target_timezone(default_tz), sun_cb)

\* update_boundaries(now_utc, default_timezone, sun_event_callback, parent_attributes)
update_boundaries(now_utc, parent_attributes) ==
    \E r \in {update_result(Self, now_utc, default_timezone, sun_event_callback,
                           parent_attributes)} :
        /\ resolved_timezone_str' = r.self.resolved_timezone_str
        /\ calculated_start_utc' = r.self.calculated_start_utc
        /\ calculated_end_utc' = r.self.calculated_end_utc
        /\ next_update_utc' = r.self.next_update_utc
        /\ last' = Some([now_utc |-> now_utc,
                         parent_attributes |-> parent_attributes,
                         success |-> r.ok])
        /\ UNCHANGED <<config, host>>

----------------------------------------------------------------------------
(* The configurations and the arguments explored *)

\* a root sensor is updated at instants Step apart, MaxTick steps from Day0
Step == 2 * Hour

MaxTick == 23

Nows == {Day0 * Day + k * Step : k \in 0..MaxTick}

\* a child sensor is updated at instants ChildStep apart
ChildStep == 4 * Hour

MaxChildTick == 11

ChildNows == {Day0 * Day + k * ChildStep : k \in 0..MaxChildTick}

At(date, hour) == date * Day + hour * Hour

\* (start_time, end_time) of root sensors
RootSpecs ==
    {<<Some(<<"08", "00">>), Some(<<"10", "00", "00">>)>>,
     <<Some(<<"22", "00">>), Some(<<"06", "00">>)>>,
     <<Some(<<"08", "00">>), Some(<<"08", "00">>)>>,
     <<Some(<<"sunrise">>), Some(<<"sunset">>)>>,
     <<Some(<<"sunset">>), Some(<<"06", "00">>)>>,
     <<Some(<<"25", "00">>), Some(<<"10", "00", "00">>)>>,
     <<None, Some(<<"10", "00", "00">>)>>}

\* (start_offset, end_offset) of root sensors, in hours
OffsetHours == {<<0, 0>>, <<0 - 2, 0>>, <<0, 2>>, <<4, 4>>, <<26, 0>>, <<0, 26>>}

\* (start_offset, end_offset) of child sensors, in hours
ChildOffsetHours == {<<0, 0>>, <<0 - 4, 0>>, <<0, 4>>, <<0 - 8, 4>>}

Timezones == {None, Some("America/Regina"), Some("Mars/Olympus_Mons")}

Refs == {"start", "end"}

DefaultTimezones == {"UTC", "Asia/Dhaka"}

SunCallbacks == {None, Some("mock_sun_callback"), Some("polar_sun_callback")}

Iso(t) == Some([iso |-> TRUE, instant |-> t])

NotIso == Some([iso |-> FALSE, instant |-> 0])

Attrs(tzname, s, e) == Some([timezone |-> tzname, start_time_utc |-> s, end_time_utc |-> e])

\* the attribute bags a parent may publish: a day window, an overnight window,
\* and bags with keys missing or timestamps that do not parse
ParentAttributes ==
    {None,
     Attrs(None, None, None),
     Attrs(Some("UTC"), None, None),
     Attrs(None, Iso(At(Day0, 8)), None),
     Attrs(None, Iso(At(Day0, 8)), NotIso),
     Attrs(Some("UTC"), NotIso, Iso(At(Day0, 16))),
     Attrs(None, Iso(At(Day0, 8)), Iso(At(Day0, 16))),
     Attrs(Some("Asia/Dhaka"), Iso(At(Day0, 20)), Iso(At(Day0 + 1, 4)))}

\* TimezoneTodSensor.__init__: no timer, no listener, nothing written; the
\* engine of test.py is driven without a wrapper, which then stays as built
InitWrapper ==
    /\ lifecycle = "created"
    /\ unsub_update = <<>>
    /\ unsub_debounce = <<>>
    /\ point_timers = <<>>
    /\ call_later = <<>>
    /\ tasks = 0
    /\ listening = FALSE
    /\ ha_state = <<>>
    /\ cancelled = <<>>
    /\ debounce_fate = <<>>

\* the config flows handled at the same time
MaxFlows == 2

FlowIds == 1..MaxFlows

\* TimezoneTodConfigFlow.__init__: self._data = {}, no step shown yet
NewFlow ==
    [step |-> "none", name |-> <<>>, is_child |-> <<>>, user_input |-> <<>>,
     errors |-> {}]

NoFlow ==
    /\ entries = <<>>
    /\ flows = [f \in FlowIds |-> NewFlow]

\* no update_boundaries call is in progress
NoSearch == search = <<>>

NoWrapper ==
    /\ InitWrapper
    /\ parent_state = <<>>
    /\ utcnow = 0
    /\ NoFlow
    /\ NoSearch

InitComputed ==
    /\ resolved_timezone_str = configured_timezone_str
    /\ calculated_start_utc = None
    /\ calculated_end_utc = None
    /\ next_update_utc = None
    /\ last = None

\* the host of a root sensor
InitRootHost ==
    /\ default_timezone \in DefaultTimezones
    /\ sun_event_callback \in SunCallbacks

\* the host of a child sensor
InitChildHost ==
    \E h \in {<<"UTC", None>>, <<"Asia/Dhaka", Some("mock_sun_callback")>>} :
        default_timezone = h[1] /\ sun_event_callback = h[2]

\* __init__ of a root sensor
InitRoot ==
    /\ is_child = FALSE
    /\ \E sp \in RootSpecs : configured_start = sp[1] /\ configured_end = sp[2]
    /\ \E off \in OffsetHours : start_offset = off[1] * Hour /\ end_offset = off[2] * Hour
    /\ configured_timezone_str \in Timezones
    /\ start_ref = "start"
    /\ end_ref = "end"

\* __init__ of a child sensor
InitChild ==
    /\ is_child = TRUE
    /\ configured_start = None
    /\ configured_end = None
    /\ \E off \in ChildOffsetHours :
           start_offset = off[1] * Hour /\ end_offset = off[2] * Hour
    /\ configured_timezone_str = None
    /\ start_ref \in Refs
    /\ end_ref \in Refs

Init ==
    /\ (InitRoot /\ InitRootHost) \/ (InitChild /\ InitChildHost)
    /\ InitComputed
    /\ NoWrapper

UpdateRoot ==
    /\ ~is_child
    /\ \E now_utc \in Nows : update_boundaries(now_utc, None)
    /\ UNCHANGED <<wrapper, flow, search>>

UpdateChild ==
    /\ is_child
    /\ \E now_utc \in ChildNows, parent_attributes \in ParentAttributes :
           update_boundaries(now_utc, parent_attributes)
    /\ UNCHANGED <<wrapper, flow, search>>

Next == UpdateRoot \/ UpdateChild

Spec == Init /\ [][Next]_vars

----------------------------------------------------------------------------
(* Root sensors with clock-time specs and zero offsets, updated at instants *)
(* one hour apart over several days.                                        *)

MaxClockTick == 119

ClockNows == {Day0 * Day + k * Hour : k \in 0..MaxClockTick}

\* (start_time, end_time): a day span, an overnight span, a full day
ClockSpecs ==
    {<<Some(<<"08", "00">>), Some(<<"10", "00", "00">>)>>,
     <<Some(<<"22", "00">>), Some(<<"06", "00">>)>>,
     <<Some(<<"08", "00">>), Some(<<"08", "00">>)>>}

ClockTimezones == {None, Some("America/New_York"), Some("Mars/Olympus_Mons")}

InitClock ==
    /\ is_child = FALSE
    /\ \E sp \in ClockSpecs : configured_start = sp[1] /\ configured_end = sp[2]
    /\ start_offset = 0
    /\ end_offset = 0
    /\ configured_timezone_str \in ClockTimezones
    /\ start_ref = "start"
    /\ end_ref = "end"
    /\ default_timezone \in DefaultTimezones
    /\ sun_event_callback = None
    /\ InitComputed
    /\ NoWrapper

UpdateClock ==
    /\ \E now_utc \in ClockNows : update_boundaries(now_utc, None)
    /\ UNCHANGED <<wrapper, flow, search>>

NextClock == UpdateClock

SpecClock == InitClock /\ [][NextClock]_vars

----------------------------------------------------------------------------
(* Properties *)

Called == ~IsNone(last)

Succeeded == Called /\ Get(last).success

Failed == Called /\ ~Get(last).success

BothSet == ~IsNone(calculated_start_utc) /\ ~IsNone(calculated_end_utc)

Boundaries == <<calculated_start_utc, calculated_end_utc, next_update_utc>>

\* C1: after any sequence of update_boundaries calls, whenever both boundaries
\* are set, the end boundary is strictly later than the start boundary.
C1_EndAfterStart ==
    BothSet => Get(calculated_end_utc) > Get(calculated_start_utc)

\* C2: a child update_boundaries call that returns failure leaves the start
\* boundary, the end boundary and the next transition as they were before it.
C2_ChildFailureKeepsBoundaries ==
    [][(is_child /\ ~IsNone(last') /\ ~Get(last').success)
          => UNCHANGED Boundaries]_vars

\* C3: a root update_boundaries call that returns failure leaves the start
\* boundary, the end boundary and the next transition as they were before it.
C3_RootFailureKeepsBoundaries ==
    [][(~is_child /\ ~IsNone(last') /\ ~Get(last').success)
          => UNCHANGED Boundaries]_vars

\* a root call has failed on an instance that holds an earlier window
C3_Witness == ~is_child /\ Failed /\ BothSet /\ ~IsNone(next_update_utc)

\* the instants is_on is probed at: the grid, and the stored boundaries with
\* their neighbours
Probes ==
    Nows \cup ChildNows
    \cup (IF IsNone(calculated_start_utc) THEN {}
          ELSE {Get(calculated_start_utc) + d : d \in {0 - 1, 0, 1}})
    \cup (IF IsNone(calculated_end_utc) THEN {}
          ELSE {Get(calculated_end_utc) + d : d \in {0 - 1, 0, 1}})

\* C4: is_on(now) is true exactly when both boundaries are set and
\* start <= now < end; so it is false at the end instant, and true at the start
\* instant of a window whose end is after its start.
C4_IsOnHalfOpen ==
    /\ \A now \in Probes :
          is_on(now) <=> (/\ calculated_start_utc # None
                          /\ calculated_end_utc # None
                          /\ calculated_start_utc[1] <= now
                          /\ now < calculated_end_utc[1])
    /\ calculated_end_utc # None => ~is_on(calculated_end_utc[1])
    /\ (BothSet /\ calculated_start_utc[1] < calculated_end_utc[1])
          => is_on(calculated_start_utc[1])

\* a stored window that is on at the instant of the update that resolved it
C4_Witness ==
    /\ Succeeded /\ BothSet
    /\ is_on(Get(last).now_utc)
    /\ is_on(Get(calculated_start_utc))
    /\ ~is_on(Get(calculated_end_utc))

\* C5: after a successful update_boundaries call at now, in either mode, the
\* next transition is the start boundary if now < start, the end boundary if
\* start <= now < end, and the start boundary plus 24 hours otherwise.
C5_NextTransition ==
    Succeeded =>
        /\ BothSet
        /\ next_update_utc =
              (LET now == Get(last).now_utc
                   start == Get(calculated_start_utc)
                   end == Get(calculated_end_utc)
               IN  IF now < start THEN Some(start)
                   ELSE IF now < end THEN Some(end)
                   ELSE Some(start + 24 * 3600))

\* a successful update made after the end of the window it resolved
C5_Witness ==
    /\ Succeeded /\ BothSet
    /\ Get(last).now_utc >= Get(calculated_end_utc)
    /\ Get(calculated_end_utc) > Get(calculated_start_utc)

\* the parent window passed to the latest call, when both of its timestamps
\* are present and parse
ParentGiven ==
    /\ Called
    /\ Get(last).parent_attributes # None
    /\ Get(last).parent_attributes[1].start_time_utc # None
    /\ Get(last).parent_attributes[1].end_time_utc # None
    /\ Get(last).parent_attributes[1].start_time_utc[1].iso
    /\ Get(last).parent_attributes[1].end_time_utc[1].iso

ParentStart == Get(last).parent_attributes[1].start_time_utc[1].instant

ParentEnd == Get(last).parent_attributes[1].end_time_utc[1].instant

\* C9: a successful child update yields start = anchor(start_ref) + start_offset
\* and end = anchor(end_ref) + end_offset, the anchor being the parent's start
\* for "start" and the parent's end for "end", whatever now, the default
\* timezone and the solar callback are.
C9_ChildArithmetic ==
    (is_child /\ Succeeded) =>
        /\ ParentGiven
        /\ calculated_start_utc =
              Some((IF start_ref = "start" THEN ParentStart ELSE ParentEnd)
                   + start_offset)
        /\ calculated_end_utc =
              Some((IF end_ref = "start" THEN ParentStart ELSE ParentEnd)
                   + end_offset)

\* a successful child update anchored start to the parent's end and end to the
\* parent's start, on a parent window that crosses midnight
C9_Witness ==
    /\ is_child /\ Succeeded /\ ParentGiven
    /\ start_ref = "end" /\ end_ref = "start"
    /\ ParentStart \div (24 * 3600) < ParentEnd \div (24 * 3600)
    /\ Get(last).now_utc > Get(calculated_end_utc)
    /\ sun_event_callback # None

\* C10: a child update fails exactly when the parent window is absent, one of
\* its timestamps is missing or does not parse, or anchor(end_ref) + end_offset
\* <= anchor(start_ref) + start_offset; a successful one stores that end with
\* no 24 hours added.
C10_ChildFailureCauses ==
    (is_child /\ Called) =>
        LET s == (IF start_ref = "start" THEN ParentStart ELSE ParentEnd)
                 + start_offset
            e == (IF end_ref = "start" THEN ParentStart ELSE ParentEnd)
                 + end_offset
        IN  /\ Get(last).success <=> (ParentGiven /\ e > s)
            /\ Get(last).success => calculated_end_utc = Some(e)

\* a child update has failed on a parent window that is present and parses,
\* because the computed end is not after the computed start
C10_Witness ==
    /\ is_child /\ Failed /\ ParentGiven
    /\ end_ref = "start" /\ start_ref = "end"

\* calendar dates looked at on either side of the local date of now
SearchDays == 3

\* C6: after a successful root update at now, with any offsets: if the window
\* of some calendar date contains now, the stored window contains now;
\* otherwise the stored window is the one with the smallest start later than now.
C6_ContainingOrNextWindow ==
    (~is_child /\ Succeeded) =>
        LET now == Get(last).now_utc
            tz == target_timezone(default_timezone)
            D == LocalDate(now, tz)
            W == [d \in (D - SearchDays)..(D + SearchDays) |->
                     get_window(d, tz, sun_event_callback)]
            defined == {d \in DOMAIN W : W[d] # None}
            containing == {d \in defined : W[d][1].s <= now /\ now < W[d][1].e}
            later == {d \in defined : W[d][1].s > now}
        IN  IF containing # {}
            THEN is_on(now)
            ELSE \E d \in later :
                    /\ \A d2 \in later : W[d][1].s <= W[d2][1].s
                    /\ calculated_start_utc = Some(W[d][1].s)
                    /\ calculated_end_utc = Some(W[d][1].e)

----------------------------------------------------------------------------
(* Properties of root sensors with clock-time specs *)

\* seconds since local midnight of a clock-time spec "HH:MM" or "HH:MM:SS"
SecondsOfDay(spec) ==
    IntLiterals[spec[1][1]] * 3600 + IntLiterals[spec[1][2]] * 60
    + (IF Len(spec[1]) = 3 THEN IntLiterals[spec[1][3]] ELSE 0)

\* hours east of UTC of the zone a root sensor computes in: the configured
\* zone when it is one of the zone database, else the default zone
TargetOffset ==
    IF configured_timezone_str # None /\ configured_timezone_str[1] \in DOMAIN ZoneTable
    THEN ZoneTable[configured_timezone_str[1]] * 3600
    ELSE ZoneTable[default_timezone] * 3600

\* the UTC instant of a local date and seconds since local midnight
LocalInstant(date, secs) == date * 24 * 3600 + secs - TargetOffset

\* the local calendar date of the latest call's now
LocalDateOfNow == (Get(last).now_utc + TargetOffset) \div (24 * 3600)

\* a spec that is a clock time: two or three integer fields, each in its range
IsClockTime(spec) ==
    /\ spec # None
    /\ Len(spec[1]) \in {2, 3}
    /\ \A i \in DOMAIN spec[1] : spec[1][i] \in DOMAIN IntLiterals
    /\ IntLiterals[spec[1][1]] \in 0..23
    /\ \A i \in DOMAIN spec[1] : i > 1 => IntLiterals[spec[1][i]] \in 0..59

\* a root sensor with clock-time specs and zero offsets
ClockRoot ==
    /\ ~is_child
    /\ IsClockTime(configured_start) /\ IsClockTime(configured_end)
    /\ start_offset = 0 /\ end_offset = 0

C8_ResolvesDateOfNow ==
    (/\ ClockRoot /\ Called
     /\ SecondsOfDay(configured_start) < SecondsOfDay(configured_end))
    => LET date == IF Get(last).now_utc
                        < LocalInstant(LocalDateOfNow, SecondsOfDay(configured_end))
                   THEN LocalDateOfNow
                   ELSE LocalDateOfNow + 1
       IN  /\ Get(last).success
           /\ calculated_start_utc =
                 Some(LocalInstant(date, SecondsOfDay(configured_start)))
           /\ calculated_end_utc =
                 Some(LocalInstant(date, SecondsOfDay(configured_end)))

\* an update made inside the occurrence of the fourth day explored
C8_Witness ==
    /\ ClockRoot /\ Succeeded
    /\ SecondsOfDay(configured_start) < SecondsOfDay(configured_end)
    /\ LocalDateOfNow = Day0 + 3
    /\ is_on(Get(last).now_utc)
    /\ Get(calculated_start_utc) = LocalInstant(Day0 + 3, SecondsOfDay(configured_start))

----------------------------------------------------------------------------
(* Properties of the Computed State as a whole *)

\* the Computed State of an instance on which update_boundaries was never called
FreshSelf ==
    [resolved_timezone_str |-> configured_timezone_str,
     calculated_start_utc  |-> None,
     calculated_end_utc    |-> None,
     next_update_utc       |-> None]

\* the Computed State a never-updated instance of the same configuration holds
\* after the call recorded in `call`
FreshResult(call) ==
    update_result(FreshSelf, call.now_utc, default_timezone, sun_event_callback,
                  call.parent_attributes).self

\* C11: the Computed State after a successful update_boundaries call is the
\* one a never-updated instance of the same configuration reaches with the same
\* arguments: it does not depend on the Computed State left by earlier calls.
C11_IndependentOfEarlierCalls ==
    [][(~IsNone(last') /\ Get(last').success)
          => /\ resolved_timezone_str' = FreshResult(Get(last')).resolved_timezone_str
             /\ calculated_start_utc' = FreshResult(Get(last')).calculated_start_utc
             /\ calculated_end_utc' = FreshResult(Get(last')).calculated_end_utc
             /\ next_update_utc' = FreshResult(Get(last')).next_update_utc]_vars

\* the instants from a up to, not including, b that are whole hours after a,
\* and the last second before b
Upto(a, b) ==
    {t \in {a + k * Hour : k \in 0..((b - a) \div Hour)} \cup {b - 1} :
        a <= t /\ t < b}

----------------------------------------------------------------------------
(* Root sensors whose offsets put every window more than a year before the *)
(* date it is resolved for, as the forward search meets them.              *)

\* (start_offset, end_offset) in days
OfflineOffsetDays == {<<0, 0>>, <<0 - 400, 0 - 400>>, <<0 - 400, 0>>, <<0, 0 - 400>>}

OfflineSpecs ==
    {<<Some(<<"08", "00">>), Some(<<"10", "00", "00">>)>>,
     <<Some(<<"22", "00">>), Some(<<"06", "00">>)>>,
     <<Some(<<"sunrise">>), Some(<<"sunset">>)>>}

MaxOfflineTick == 5

OfflineNows == {Day0 * Day + k * Step : k \in 0..MaxOfflineTick}

InitOffline ==
    /\ is_child = FALSE
    /\ \E sp \in OfflineSpecs : configured_start = sp[1] /\ configured_end = sp[2]
    /\ \E off \in OfflineOffsetDays :
           start_offset = off[1] * Day /\ end_offset = off[2] * Day
    /\ configured_timezone_str \in {None, Some("America/Regina")}
    /\ start_ref = "start"
    /\ end_ref = "end"
    /\ default_timezone = "UTC"
    /\ sun_event_callback = Some("mock_sun_callback")
    /\ InitComputed
    /\ NoWrapper

UpdateOffline ==
    /\ \E now_utc \in OfflineNows : update_boundaries(now_utc, None)
    /\ UNCHANGED <<wrapper, flow, search>>

NextOffline == UpdateOffline

SpecOffline == InitOffline /\ [][NextOffline]_vars

\* C13: after a successful root update at now, now is before the stored end
\* boundary, whatever the specs and offsets are.
C13_StoredWindowNotEnded ==
    (~is_child /\ Succeeded) => Get(last).now_utc < Get(calculated_end_utc)

\* the forward search of the latest root call: Optional [date, s, e]
LastSearch ==
    LET now == Get(last).now_utc
        tz == target_timezone(default_timezone)
        D == LocalDate(now, tz)
    IN  forward_search(now, D, tz, sun_event_callback)

\* the forward search of the latest root call made all its advances and ended
\* on a window that now is not before the end of
CapExceeded ==
    /\ ~is_child /\ Called
    /\ ~IsNone(LastSearch)
    /\ Get(LastSearch).date
         = LocalDate(Get(last).now_utc, target_timezone(default_timezone)) + MaxAdvance
    /\ Get(last).now_utc >= Get(LastSearch).e

\* C14: a root update whose forward search has made its 365 advances and is
\* left with a window that has ended returns failure.
C14_CapExceededFails == CapExceeded => Failed

----------------------------------------------------------------------------
(* Properties of the time zone of a root sensor *)

\* the occurrence of a clock-time root sensor on local date d of the target
\* zone: the wall-clock start and end of d, the end on d + 1 when it is not
\* later than the start
WallClockWindow(d) ==
    LET s == SecondsOfDay(configured_start)
        e == SecondsOfDay(configured_end)
    IN  [s |-> LocalInstant(d, s),
         e |-> IF e <= s THEN LocalInstant(d + 1, e) ELSE LocalInstant(d, e)]

\* C15: a root sensor with clock-time specs and zero offsets resolves wall-clock
\* times of the target zone (the configured zone when the zone database has it,
\* else the default zone), starting from the local date D of now in that zone:
\* it stores the occurrence of D - 1 when now is inside it, else the occurrence
\* of D when now is before its end, else the occurrence of D + 1.
C15_LocalDateAndWallClock ==
    (ClockRoot /\ Called) =>
        LET now == Get(last).now_utc
            D == LocalDateOfNow
            w == IF WallClockWindow(D - 1).s <= now /\ now < WallClockWindow(D - 1).e
                 THEN WallClockWindow(D - 1)
                 ELSE IF now < WallClockWindow(D).e THEN WallClockWindow(D)
                 ELSE WallClockWindow(D + 1)
        IN  /\ Get(last).success
            /\ calculated_start_utc = Some(w.s)
            /\ calculated_end_utc = Some(w.e)

\* a sensor configured 08:00 to 10:00 in America/New_York, five hours behind
\* UTC, is on at 14:00 UTC, 09:00 local time
C15_Witness ==
    /\ ClockRoot /\ Succeeded
    /\ configured_timezone_str = Some("America/New_York")
    /\ default_timezone # "America/New_York"
    /\ configured_start = Some(<<"08", "00">>)
    /\ configured_end = Some(<<"10", "00", "00">>)
    /\ Get(last).now_utc % (24 * 3600) = 14 * 3600
    /\ is_on(Get(last).now_utc)
    /\ Get(calculated_start_utc) % (24 * 3600) = 13 * 3600

----------------------------------------------------------------------------
(* Properties of root sensors with solar specs *)

\* a root sensor from sunrise to sunset whose host supplies the callback that
\* has a sunrise before a sunset on every date
SolarRoot ==
    /\ ~is_child
    /\ configured_start = Some(<<"sunrise">>)
    /\ configured_end = Some(<<"sunset">>)
    /\ sun_event_callback = Some("mock_sun_callback")

\* the local date of the latest call's now in the zone the root logic computes in
SolarDate == LocalDate(Get(last).now_utc, target_timezone(default_timezone))

Sunrise(d) == Get(CallSun("mock_sun_callback", "sunrise", d))

Sunset(d) == Get(CallSun("mock_sun_callback", "sunset", d))

\* C16 as stated: an update of a sunrise-to-sunset sensor at an instant between
\* the sunrise and the sunset of the local date D succeeds with the boundaries
\* of D plus the offsets, and the sensor is on at that instant.
C16_BetweenSunriseAndSunset ==
    (/\ SolarRoot /\ Called
     /\ Sunrise(SolarDate) <= Get(last).now_utc
     /\ Get(last).now_utc < Sunset(SolarDate))
    => /\ Get(last).success
       /\ calculated_start_utc = Some(Sunrise(SolarDate) + start_offset)
       /\ calculated_end_utc = Some(Sunset(SolarDate) + end_offset)
       /\ is_on(Get(last).now_utc)

\* C16, amended: an update of a sunrise-to-sunset sensor at an instant that is
\* not before the sunrise of the local date D plus the start offset and is
\* before the sunset of D plus the end offset succeeds with these two
\* boundaries, and the sensor is on at that instant.
C16_InsideSolarWindow ==
    (/\ SolarRoot /\ Called
     /\ Sunrise(SolarDate) + start_offset <= Get(last).now_utc
     /\ Get(last).now_utc < Sunset(SolarDate) + end_offset)
    => /\ Get(last).success
       /\ calculated_start_utc = Some(Sunrise(SolarDate) + start_offset)
       /\ calculated_end_utc = Some(Sunset(SolarDate) + end_offset)
       /\ is_on(Get(last).now_utc)

\* a sensor from two hours before sunrise to sunset is updated, and on, before
\* the sunrise of the day
C16_Witness ==
    /\ SolarRoot /\ Succeeded
    /\ start_offset < 0
    /\ Get(last).now_utc < Sunrise(SolarDate)
    /\ is_on(Get(last).now_utc)
    /\ calculated_end_utc = Some(Sunset(SolarDate))

\* a root sensor one of whose specs is a solar event
HasSolarSpec ==
    /\ ~is_child
    /\ \/ configured_start \in {Some(<<"sunrise">>), Some(<<"sunset">>)}
       \/ configured_end \in {Some(<<"sunrise">>), Some(<<"sunset">>)}

\* the forward search of the latest call as it runs when every date has its
\* solar events: Optional [date, s, e]
FullSunSearch ==
    LET now == Get(last).now_utc
        tz == target_timezone(default_timezone)
        cb == Some("mock_sun_callback")
    IN  forward_search(now, LocalDate(now, tz), tz, cb)

\* the dates that search resolves: the dates the forward search visits, and the
\* date of the previous-day lookup made when now is before the start found
ResolvedDates ==
    (SolarDate..Get(FullSunSearch).date)
    \cup (IF Get(last).now_utc < Get(FullSunSearch).s
          THEN {Get(FullSunSearch).date - 1} ELSE {})

\* C17: an update of a root sensor with a solar spec fails when the host
\* supplies no solar callback, and when the callback has no value for one of the
\* dates the calculation resolves.
C17_SolarFailure ==
    (HasSolarSpec /\ Called) =>
        /\ IsNone(sun_event_callback) => Failed
        /\ (/\ sun_event_callback = Some("polar_sun_callback")
            /\ ~IsNone(FullSunSearch)
            /\ NoSunDate \in ResolvedDates) => Failed

\* an update on the day after the date without solar events fails on the
\* previous-day lookup
C17_Witness ==
    /\ HasSolarSpec /\ Failed
    /\ sun_event_callback = Some("polar_sun_callback")
    /\ ~IsNone(FullSunSearch)
    /\ SolarDate = NoSunDate + 1
    /\ Get(FullSunSearch).date = SolarDate
    /\ Get(last).now_utc < Get(FullSunSearch).s

----------------------------------------------------------------------------
(* Root sensors with well-formed and malformed clock-time specs *)

\* time strings: "08:00", "10:00:00", and strings with one field, four fields,
\* a field that is no integer, and an hour, a minute or a second out of range
ParseSpecs ==
    {Some(<<"08", "00">>),
     Some(<<"10", "00", "00">>),
     Some(<<"08">>),
     Some(<<"08", "00", "00", "00">>),
     Some(<<"08", "xx">>),
     Some(<<"25", "00">>),
     Some(<<"-1", "00">>),
     Some(<<"08", "60">>),
     Some(<<"08", "00", "60">>)}

MaxParseTick == 5

ParseNows == {Day0 * Day + k * ChildStep : k \in 0..MaxParseTick}

InitParse ==
    /\ is_child = FALSE
    /\ configured_start \in ParseSpecs
    /\ configured_end \in ParseSpecs
    /\ start_offset = 0
    /\ end_offset = 0
    /\ configured_timezone_str = None
    /\ start_ref = "start"
    /\ end_ref = "end"
    /\ default_timezone = "UTC"
    /\ sun_event_callback = None
    /\ InitComputed
    /\ NoWrapper

UpdateParse ==
    /\ \E now_utc \in ParseNows : update_boundaries(now_utc, None)
    /\ UNCHANGED <<wrapper, flow, search>>

NextParse == UpdateParse

SpecParse == InitParse /\ [][NextParse]_vars

\* a spec that is neither a solar event nor a clock time of 2 or 3 integer
\* fields with hour 0..23, minute 0..59 and second 0..59
Malformed(spec) ==
    /\ ~IsNone(spec)
    /\ spec \notin {Some(<<"sunrise">>), Some(<<"sunset">>)}
    /\ ~IsClockTime(spec)

\* C18: a root update fails whenever its start spec or its end spec is a
\* malformed clock time: not 2 or 3 colon-separated integer fields, or a field
\* out of its range.
C18_MalformedSpecFails ==
    (~is_child /\ Called /\ (Malformed(configured_start) \/ Malformed(configured_end)))
        => Failed /\ ~BothSet

\* an update has failed on an end spec of four fields that follows a
\* well-formed start spec
C18_Witness ==
    /\ ~is_child /\ Failed
    /\ IsClockTime(configured_start)
    /\ ~IsNone(configured_end) /\ Len(Get(configured_end)) = 4

----------------------------------------------------------------------------
(* Properties of the resolved time zone name *)

\* C19: an update_boundaries call that returns failure, in root or child mode,
\* leaves the resolved time zone name as it was before the call.
C19_FailureKeepsTimezoneName ==
    [][(~IsNone(last') /\ ~Get(last').success)
          => UNCHANGED resolved_timezone_str]_vars

\* the time zone name of the parent's attributes passed to the latest call
ParentTimezone ==
    IF IsNone(Get(last).parent_attributes) THEN None
    ELSE Get(Get(last).parent_attributes).timezone

\* C20: after a successful root update the resolved time zone name is the
\* configured name when one is configured, else the name of the default zone of
\* the call; after a successful child update it is the name the parent's
\* attributes carry, when they carry one.
C20_TimezoneName ==
    Succeeded =>
        /\ ~is_child =>
              resolved_timezone_str =
                  (IF ~IsNone(configured_timezone_str) THEN configured_timezone_str
                   ELSE Some(default_timezone))
        /\ (is_child /\ ~IsNone(ParentTimezone)) =>
              resolved_timezone_str = ParentTimezone

\* a child whose host's default zone is UTC has taken the name Asia/Dhaka from
\* its parent
C20_Witness ==
    /\ is_child /\ Succeeded
    /\ default_timezone = "UTC"
    /\ ParentTimezone = Some("Asia/Dhaka")
    /\ resolved_timezone_str = Some("Asia/Dhaka")

----------------------------------------------------------------------------
(* Properties of the previous-day lookup *)

\* the window of the date before the one the forward search of the latest
\* root call has settled on: Optional [s, e]
PreviousOfSearch ==
    get_window(Get(LastSearch).date - 1, target_timezone(default_timezone),
               sun_event_callback)

\* now of the latest call is inside the window of the date before the one the
\* forward search has settled on
InsidePrevious ==
    /\ ~is_child /\ Called
    /\ ~IsNone(LastSearch)
    /\ ~IsNone(PreviousOfSearch)
    /\ Get(PreviousOfSearch).s <= Get(last).now_utc
    /\ Get(last).now_utc < Get(PreviousOfSearch).e

\* C21 as stated: whenever now is inside the window of the date before the one
\* the forward search has settled on, the root update stores that previous
\* window, also when now is inside the window the search has settled on.
C21_PreviousWindowPreferred ==
    InsidePrevious =>
        /\ Succeeded
        /\ calculated_start_utc = Some(Get(PreviousOfSearch).s)
        /\ calculated_end_utc = Some(Get(PreviousOfSearch).e)

\* C21, amended: when now is before the start of the window the forward search
\* has settled on and inside the window of the date before, the root update
\* stores that previous window; when now is not before that start, it stores
\* the window the search has settled on.
C21_PreviousWindowBeforeStart ==
    /\ (InsidePrevious /\ Get(last).now_utc < Get(LastSearch).s) =>
          /\ Succeeded
          /\ calculated_start_utc = Some(Get(PreviousOfSearch).s)
          /\ calculated_end_utc = Some(Get(PreviousOfSearch).e)
    /\ (~is_child /\ Called /\ ~IsNone(LastSearch)
        /\ Get(last).now_utc >= Get(LastSearch).s) =>
          /\ Succeeded
          /\ calculated_start_utc = Some(Get(LastSearch).s)
          /\ calculated_end_utc = Some(Get(LastSearch).e)

\* a root sensor with offsets has stored the window of the previous date, which
\* now is inside
C21_Witness ==
    /\ InsidePrevious /\ Succeeded
    /\ Get(last).now_utc < Get(LastSearch).s
    /\ start_offset # 0
    /\ is_on(Get(last).now_utc)
    /\ calculated_start_utc = Some(Get(PreviousOfSearch).s)

----------------------------------------------------------------------------
(* TimezoneTodSensor (custom_components/timezonetod/binary_sensor.py): the  *)
(* Home Assistant wrapper of one sensor and the event loop it runs on.      *)
(*                                                                          *)
(* The handle of a timer is the value the timer was armed with: the instant *)
(* of a point-in-time timer, the number of the parent event of a call-later *)
(* timer.  A timer that fires leaves the event loop; its handle stays in    *)
(* the wrapper, and cancelling it later does nothing.  A coroutine runs     *)
(* without interruption between two awaits, so each handler is one step.    *)
(* The clock moves only when nothing is due: a created task, a call-later   *)
(* timer (0.1 s) and a point-in-time timer whose instant has come all run   *)
(* before utcnow reaches the next instant modelled.                         *)

Armed(timers, handle) == \E i \in 1..Len(timers) : timers[i] = handle

\* the timers without timers[i]
Without(timers, i) == SubSeq(timers, 1, i - 1) \o SubSeq(timers, i + 1, Len(timers))

\* calling the unsubscribe function `handle`: the armed timers that remain
Unsub(timers, handle) ==
    IF Armed(timers, handle)
    THEN Without(timers, CHOOSE i \in 1..Len(timers) :
                             /\ timers[i] = handle
                             /\ \A j \in 1..(i - 1) : timers[j] # handle)
    ELSE timers

\* what async_write_ha_state records: is_on and extra_state_attributes
written_state(self, now_utc) ==
    IF \/ IsNone(self.calculated_start_utc)
       \/ IsNone(self.calculated_end_utc)
       \/ IsNone(self.next_update_utc)
    THEN [on |-> FALSE, attributes |-> None]
    ELSE [on |-> /\ Get(self.calculated_start_utc) <= now_utc
                 /\ now_utc < Get(self.calculated_end_utc),
          attributes |-> Some([start_time_utc |-> self.calculated_start_utc,
                               end_time_utc |-> self.calculated_end_utc])]

\* as reschedule, without the cancellation of the timer armed before
reschedule_keeping(timers, handle, next_update) ==
    [timers |-> IF IsNone(next_update) THEN timers
                ELSE Append(timers, Get(next_update)),
     handle |-> next_update]

\* the end of _update_and_reschedule: the armed timer is cancelled, then one
\* is armed at next_update_utc: [timers, handle]
reschedule(timers, handle, next_update) ==
    LET kept == IF IsNone(handle) THEN timers ELSE Unsub(timers, Get(handle))
    IN  [timers |-> IF IsNone(next_update) THEN kept
                    ELSE Append(kept, Get(next_update)),
         handle |-> next_update]

\* as parent_ready, with the two guards of the child removed
parent_ready_always(state) == TRUE

\* the two guards of a child in _update_and_reschedule: the parent has a
\* state, and the state has the start_time_utc attribute
parent_ready(state) ==
    /\ ~IsNone(state)
    /\ ~IsNone(DictGet(Get(state), "start_time_utc"))

\* _cancel_timer
cancel_timer ==
    IF IsNone(unsub_update)
    THEN UNCHANGED <<point_timers, unsub_update, cancelled>>
    ELSE /\ point_timers' = Unsub(point_timers, Get(unsub_update))
         /\ unsub_update' = None
         /\ cancelled' = IF Armed(point_timers, Get(unsub_update))
                         THEN unsub_update ELSE cancelled

\* _update_and_reschedule.  Writing the state of an entity that was removed
\* is outside this code: it either returns or raises, and when it raises
\* the coroutine ends there.
update_and_reschedule ==
    IF is_child /\ ~parent_ready(parent_state)
    THEN UNCHANGED <<config, computed, host, last,
                     unsub_update, point_timers, ha_state, cancelled>>
    ELSE /\ update_boundaries(utcnow, IF is_child THEN parent_state ELSE None)
         /\ \E raises \in (IF lifecycle = "removed" THEN BOOLEAN ELSE {FALSE}) :
                IF ~Get(last').success \/ raises
                THEN UNCHANGED <<unsub_update, point_timers, ha_state, cancelled>>
                ELSE /\ ha_state' = Some(written_state(Self', utcnow))
                     /\ \E r \in {reschedule(point_timers, unsub_update,
                                             next_update_utc')} :
                            /\ point_timers' = r.timers
                            /\ unsub_update' = r.handle
                     /\ cancelled' =
                            IF /\ ~IsNone(unsub_update)
                               /\ Armed(point_timers, Get(unsub_update))
                            THEN unsub_update ELSE cancelled

\* as debounce, without the call-later timer armed for the event
debounce_dropping(timers, handle, event) ==
    IF IsNone(handle) THEN timers ELSE Unsub(timers, Get(handle))

\* as debounce, without the cancellation of the pending call-later timer
debounce_keeping(timers, handle, event) == Append(timers, event)

\* _handle_parent_update: the pending call-later timer is cancelled and one
\* is armed for this event
debounce(timers, handle, event) ==
    Append(IF IsNone(handle) THEN timers ELSE Unsub(timers, Get(handle)), event)

handle_parent_update ==
    LET event == Len(debounce_fate) + 1
        pending == ~IsNone(unsub_debounce) /\ Armed(call_later, Get(unsub_debounce))
    IN  /\ call_later' = debounce(call_later, unsub_debounce, event)
        /\ unsub_debounce' = Some(event)
        /\ debounce_fate' =
               Append(IF pending /\ ~Armed(call_later', Get(unsub_debounce))
                      THEN [debounce_fate EXCEPT ![Get(unsub_debounce)] = "cancelled"]
                      ELSE debounce_fate,
                      "pending")

\* the instants of utcnow: HostStep apart, MaxHostTick steps from Day0
HostStep == 2 * Hour

MaxHostTick == 17

\* state changes of the parent entity
MaxEvents == 2

\* the states of the parent entity: none, one with the timezone attribute
\* only, and two published windows
ParentStates ==
    {None,
     Attrs(Some("UTC"), None, None),
     Attrs(None, Iso(At(Day0, 8)), Iso(At(Day0, 16))),
     Attrs(Some("Asia/Dhaka"), Iso(At(Day0, 20)), Iso(At(Day0 + 1, 4)))}

HostRootSpecs ==
    {<<Some(<<"08", "00">>), Some(<<"10", "00", "00">>)>>,
     <<Some(<<"sunrise">>), Some(<<"sunset">>)>>}

HostChildOffsetHours == {<<0, 0>>, <<0 - 4, 0>>}

InitHostRoot ==
    /\ is_child = FALSE
    /\ \E sp \in HostRootSpecs : configured_start = sp[1] /\ configured_end = sp[2]
    /\ start_offset = 0
    /\ end_offset = 0
    /\ configured_timezone_str = None
    /\ start_ref = "start"
    /\ end_ref = "end"
    /\ default_timezone = "UTC"
    /\ sun_event_callback \in {Some("mock_sun_callback"), Some("polar_sun_callback")}
    /\ parent_state = None

InitHostChild ==
    /\ is_child = TRUE
    /\ configured_start = None
    /\ configured_end = None
    /\ \E off \in HostChildOffsetHours :
           start_offset = off[1] * Hour /\ end_offset = off[2] * Hour
    /\ configured_timezone_str = None
    /\ start_ref \in Refs
    /\ end_ref = "end"
    /\ default_timezone = "UTC"
    /\ sun_event_callback = None
    /\ parent_state \in ParentStates

InitHost ==
    /\ InitHostRoot \/ InitHostChild
    /\ InitComputed
    /\ InitWrapper
    /\ utcnow = Day0 * Day
    /\ NoFlow
    /\ NoSearch

\* async_added_to_hass
AddedToHass ==
    /\ lifecycle = "created"
    /\ lifecycle' = "added"
    /\ listening' = is_child
    /\ update_and_reschedule
    /\ UNCHANGED <<unsub_debounce, call_later, tasks, parent_state, utcnow,
                   debounce_fate, flow, search>>

\* the parent entity writes a new state; a listening child is called back
ParentStateChange ==
    /\ is_child
    /\ Len(debounce_fate) < MaxEvents
    /\ \E state \in ParentStates \ {parent_state} : parent_state' = state
    /\ IF listening
       THEN handle_parent_update
       ELSE /\ debounce_fate' = Append(debounce_fate, "unheard")
            /\ UNCHANGED <<unsub_debounce, call_later>>
    /\ UNCHANGED <<config, computed, host, last, lifecycle, unsub_update,
                   point_timers, tasks, listening, utcnow, ha_state, cancelled, flow, search>>

\* a call-later timer fires: _scheduled_update creates an update task
DebounceElapsed ==
    /\ \E i \in 1..Len(call_later) :
           /\ call_later' = Without(call_later, i)
           /\ debounce_fate' = [debounce_fate EXCEPT ![call_later[i]] = "fired"]
    /\ tasks' = tasks + 1
    /\ UNCHANGED <<config, computed, host, last, lifecycle, unsub_update,
                   unsub_debounce, point_timers, listening, parent_state, utcnow,
                   ha_state, cancelled, flow, search>>

\* a point-in-time timer fires: _scheduled_update creates an update task
TimerFires ==
    /\ \E i \in 1..Len(point_timers) :
           /\ point_timers[i] <= utcnow
           /\ point_timers' = Without(point_timers, i)
    /\ tasks' = tasks + 1
    /\ UNCHANGED <<config, computed, host, last, lifecycle, unsub_update,
                   unsub_debounce, call_later, listening, parent_state, utcnow,
                   ha_state, cancelled, debounce_fate, flow, search>>

\* the event loop runs a created update task
RunTask ==
    /\ tasks > 0
    /\ tasks' = tasks - 1
    /\ update_and_reschedule
    /\ UNCHANGED <<lifecycle, unsub_debounce, call_later, listening, parent_state,
                   utcnow, debounce_fate, flow, search>>

\* the entity is removed: async_will_remove_from_hass, then the callbacks
\* registered with async_on_remove
RemoveFromHass ==
    /\ lifecycle = "added"
    /\ lifecycle' = "removed"
    /\ cancel_timer
    /\ listening' = FALSE
    /\ UNCHANGED <<config, computed, host, last, unsub_debounce, call_later, tasks,
                   parent_state, utcnow, ha_state, debounce_fate, flow, search>>

Due == \E i \in 1..Len(point_timers) : point_timers[i] <= utcnow

Tick ==
    /\ utcnow < Day0 * Day + MaxHostTick * HostStep
    /\ tasks = 0
    /\ call_later = <<>>
    /\ ~Due
    /\ utcnow' = utcnow + HostStep
    /\ UNCHANGED <<config, computed, host, last, lifecycle, unsub_update,
                   unsub_debounce, point_timers, call_later, tasks, listening,
                   parent_state, ha_state, cancelled, debounce_fate, flow, search>>

NextHost ==
    \/ AddedToHass
    \/ ParentStateChange
    \/ DebounceElapsed
    \/ TimerFires
    \/ RunTask
    \/ RemoveFromHass
    \/ Tick

SpecHost == InitHost /\ [][NextHost]_vars

----------------------------------------------------------------------------
(* Properties of the wrapper *)

\* an update of this entity has succeeded: its state was written
UpdateSucceeded == ~IsNone(ha_state)

\* something of the entity is pending: an armed timer or a created task
Pending == point_timers # <<>> \/ call_later # <<>> \/ tasks > 0

\* C22: once an update of a sensor has succeeded, the sensor (while it is in
\* Home Assistant) never reaches a state with no pending timer and no pending
\* update, whatever the outcome of the recomputations.
C22_AlwaysRescheduled ==
    (lifecycle = "added" /\ UpdateSucceeded) => Pending

\* C23: after the entity is removed, no timer of the entity is armed: neither
\* a point-in-time timer (left armed, or armed by an update task created
\* before the removal) nor a call-later timer of the debounce.
C23_NothingArmedAfterRemoval ==
    lifecycle = "removed" => (point_timers = <<>> /\ call_later = <<>>)

\* C24: each parent event heard by a child cancels the call-later timer that
\* is pending and arms a new one: at most one call-later timer is armed, it
\* is the timer of the latest event heard, and an event followed by another
\* one while its timer is pending never causes an update of its own.  A burst
\* of events causes one update task, created when the timer of its last
\* event fires.
C24_OneUpdatePerBurst ==
    /\ Len(call_later) <= 1
    /\ \A e \in 1..Len(debounce_fate) :
           /\ debounce_fate[e] = "pending" =>
                  /\ call_later = <<e>>
                  /\ \A f \in (e + 1)..Len(debounce_fate) : debounce_fate[f] = "unheard"
           /\ Armed(call_later, e) => debounce_fate[e] = "pending"

\* a burst of two events has caused one update: the timer of the first was
\* cancelled, the timer of the second has fired and its task has run
C24_Witness ==
    /\ lifecycle = "added"
    /\ debounce_fate = <<"cancelled", "fired">>
    /\ tasks = 0
    /\ Succeeded

\* C25: at every moment at most one point-in-time timer of the sensor is
\* armed, under any interleaving of timer firings, parent events, debounced
\* updates and removal.
C25_OneTransitionTimer == Len(point_timers) <= 1

\* a successful update has cancelled a timer that was still armed and armed
\* the timer that is pending now
C25_Witness ==
    /\ lifecycle = "added"
    /\ ~IsNone(cancelled)
    /\ Len(point_timers) = 1
    /\ unsub_update = Some(point_timers[1])
    /\ Get(cancelled) # point_timers[1]

----------------------------------------------------------------------------
(* The wrapper on a running event loop: an armed timer whose time has come  *)
(* fires, and a created task runs.                                          *)

SpecHostLive ==
    /\ InitHost
    /\ [][NextHost]_vars
    /\ WF_vars(DebounceElapsed)
    /\ WF_vars(TimerFires)
    /\ WF_vars(RunTask)

\* the parent's state holds a window: both timestamps are there and parse
ParentPublished ==
    /\ ~IsNone(parent_state)
    /\ ~IsNone(Get(parent_state).start_time_utc)
    /\ ~IsNone(Get(parent_state).end_time_utc)
    /\ Get(Get(parent_state).start_time_utc).iso
    /\ Get(Get(parent_state).end_time_utc).iso

PublishedStart == Get(Get(parent_state).start_time_utc).instant

PublishedEnd == Get(Get(parent_state).end_time_utc).instant

DerivedStart ==
    (IF start_ref = "start" THEN PublishedStart ELSE PublishedEnd) + start_offset

DerivedEnd ==
    (IF end_ref = "start" THEN PublishedStart ELSE PublishedEnd) + end_offset

\* a child in Home Assistant whose parent's state holds a window from which
\* the child's offsets give end > start
ChildCanDerive ==
    /\ is_child
    /\ lifecycle = "added"
    /\ ParentPublished
    /\ DerivedEnd > DerivedStart

ChildHoldsDerived ==
    /\ ChildCanDerive
    /\ calculated_start_utc = Some(DerivedStart)
    /\ calculated_end_utc = Some(DerivedEnd)

\* C26: once the parent's state holds a window from which the child's offsets
\* give end > start, the child in Home Assistant eventually holds the
\* boundaries derived from that window, unless the parent's state changes
\* again or the child is removed first; this whether the child was added
\* before or after the parent published.
C26_ChildEventuallyDerives ==
    ChildCanDerive ~> (ChildHoldsDerived \/ ~ChildCanDerive)

\* a child added before its parent had a state holds the boundaries derived
\* from the window the parent published afterwards
C26_Witness ==
    /\ ChildHoldsDerived
    /\ debounce_fate # <<>>
    /\ debounce_fate[1] # "unheard"
    /\ ~Armed(call_later, Len(debounce_fate))
    /\ tasks = 0

\* a step in which _update_and_reschedule ran: as a task, or at the end of
\* async_added_to_hass
UpdateRan == tasks' = tasks - 1 \/ (lifecycle = "created" /\ lifecycle' = "added")

\* the parent has no state, or its state has no start_time_utc attribute
ParentMissing ==
    IsNone(parent_state) \/ IsNone(Get(parent_state).start_time_utc)

\* C27: an update of a child whose parent has no state, or a state without
\* start_time_utc, is skipped entirely: the engine is not called and its
\* Computed State stays as it was, no state is written, and the armed timer
\* and its handle stay as they were.
C27_SkippedUpdateChangesNothing ==
    [][(is_child /\ ParentMissing /\ UpdateRan)
          => UNCHANGED <<computed, last, ha_state, unsub_update, point_timers>>]_vars

\* the update caused by the latest parent event ran while the parent's state
\* had no start_time_utc and a timer was armed: the timer is still armed
C27_Witness ==
    /\ is_child
    /\ lifecycle = "added"
    /\ ParentMissing
    /\ debounce_fate # <<>>
    /\ debounce_fate[Len(debounce_fate)] = "fired"
    /\ tasks = 0
    /\ Len(point_timers) = 1
    /\ unsub_update = Some(point_timers[1])
    /\ UpdateSucceeded

----------------------------------------------------------------------------
(* TimezoneTodConfigFlow (custom_components/timezonetod/config_flow.py).    *)
(* A flow is at the step whose form it showed last; each call of a step     *)
(* handler runs without interruption, and the handlers of different flows   *)
(* interleave.  A time string is held as the list of its parts, as above.   *)

\* dt_util.parse_time(value): at least hour and minute, seconds default to 0,
\* parts after the third are ignored; None when a part is no int or the
\* time is out of range
parse_time(parts) ==
    IF Len(parts) < 2 THEN None
    ELSE LET hour == ParseInt(parts[1])
             minute == ParseInt(parts[2])
             second == IF Len(parts) > 2 THEN ParseInt(parts[3]) ELSE Some(0)
         IN  IF IsNone(hour) \/ IsNone(minute) \/ IsNone(second) THEN None
             ELSE TimeOfDay(Get(hour), Get(minute), Get(second))

validate_time_format(value) ==
    value \in {<<"sunrise">>, <<"sunset">>} \/ ~IsNone(parse_time(value))

\* as root_errors, with the start time alone validated
root_errors_start_only(user_input) ==
    {field \in {"start_time"} : ~validate_time_format(user_input[field])}

\* async_step_root: the fields given the error invalid_time_format
root_errors(user_input) ==
    {field \in {"start_time", "end_time"} : ~validate_time_format(user_input[field])}

\* the names a user submits
Names == {"Morning", "Evening"}

\* the time strings a user submits
FlowTimes == {<<"sunrise">>, <<"08", "00">>, <<"25", "00">>, <<"08">>}

\* the engine of a flow's specification is never built
InitFlow ==
    /\ is_child = FALSE
    /\ configured_start = None
    /\ configured_end = None
    /\ start_offset = 0
    /\ end_offset = 0
    /\ configured_timezone_str = None
    /\ start_ref = "start"
    /\ end_ref = "end"
    /\ default_timezone = "UTC"
    /\ sun_event_callback = None
    /\ InitComputed
    /\ NoWrapper

NoEngine == UNCHANGED <<config, computed, host, last, wrapper, search>>

\* async_step_user(None): the form of the user step is shown
ShowUser(f) ==
    /\ flows[f].step = "none"
    /\ flows' = [flows EXCEPT ![f].step = "user"]
    /\ UNCHANGED entries
    /\ NoEngine

\* async_step_user(user_input), which ends in async_step_child(None) or
\* async_step_root(None): the form of that step is shown
StepUser(f) ==
    /\ flows[f].step = "user"
    /\ \E name \in Names, child \in BOOLEAN :
           IF \E i \in 1..Len(entries) : entries[i].name = name
           THEN flows' = [flows EXCEPT ![f].step = "aborted"]
           ELSE flows' = [flows EXCEPT ![f].name = Some(name),
                                       ![f].is_child = Some(child),
                                       ![f].step = IF child THEN "child" ELSE "root"]
    /\ UNCHANGED entries
    /\ NoEngine

\* async_step_root(user_input)
StepRoot(f) ==
    /\ flows[f].step = "root"
    /\ \E start_time \in FlowTimes, end_time \in FlowTimes :
           LET user_input == [start_time |-> start_time, end_time |-> end_time]
               errors == root_errors(user_input)
           IN  IF errors = {}
               THEN /\ entries' = Append(entries,
                                         [name |-> Get(flows[f].name),
                                          is_child |-> Get(flows[f].is_child),
                                          start_time |-> Some(start_time),
                                          end_time |-> Some(end_time)])
                    /\ flows' = [flows EXCEPT ![f].step = "created",
                                              ![f].user_input = Some(user_input),
                                              ![f].errors = errors]
               ELSE /\ flows' = [flows EXCEPT ![f].user_input = Some(user_input),
                                              ![f].errors = errors]
                    /\ UNCHANGED entries
    /\ NoEngine

\* async_step_child(user_input)
StepChild(f) ==
    /\ flows[f].step = "child"
    /\ entries' = Append(entries,
                         [name |-> Get(flows[f].name),
                          is_child |-> Get(flows[f].is_child),
                          start_time |-> None,
                          end_time |-> None])
    /\ flows' = [flows EXCEPT ![f].step = "created"]
    /\ NoEngine

NextFlow ==
    \/ \E f \in FlowIds : ShowUser(f)
    \/ \E f \in FlowIds : StepUser(f)
    \/ \E f \in FlowIds : StepRoot(f)
    \/ \E f \in FlowIds : StepChild(f)

SpecFlow == InitFlow /\ [][NextFlow]_vars

\* C28: no two config entries created through the config flow carry the same
\* sensor name, also when several flows are in progress at the same time.
C28_NamesUnique ==
    \A i, j \in 1..Len(entries) : entries[i].name = entries[j].name => i = j

\* C29: a submitted user step that does not abort shows the child step when
\* is_child is set and the root step otherwise; a submitted root step creates
\* an entry when the start and the end time both pass validate_time_format,
\* and otherwise shows the root form again with an error on each field that
\* does not pass, and creates nothing.
C29_FlowRouting ==
    [][\A f \in FlowIds :
          /\ (flows[f].step = "user" /\ flows'[f].step # "user") =>
                 \/ flows'[f].step = "aborted"
                 \/ /\ ~IsNone(flows'[f].is_child)
                    /\ flows'[f].step =
                           IF Get(flows'[f].is_child) THEN "child" ELSE "root"
                    /\ entries' = entries
          /\ (flows[f].step = "root" /\ flows'[f] # flows[f]) =>
                 LET user_input == Get(flows'[f].user_input)
                     start_ok == validate_time_format(user_input.start_time)
                     end_ok == validate_time_format(user_input.end_time)
                 IN  IF start_ok /\ end_ok
                     THEN /\ flows'[f].step = "created"
                          /\ Len(entries') = Len(entries) + 1
                     ELSE /\ flows'[f].step = "root"
                          /\ entries' = entries
                          /\ flows'[f].errors =
                                 (IF start_ok THEN {} ELSE {"start_time"})
                                 \cup (IF end_ok THEN {} ELSE {"end_time"})]_vars

\* a root form was shown again with an error on the end time alone, and a
\* root entry was created by another flow
C29_Witness ==
    /\ \E f \in FlowIds : flows[f].step = "root" /\ flows[f].errors = {"end_time"}
    /\ \E i \in 1..Len(entries) : ~entries[i].is_child

----------------------------------------------------------------------------
(* The older revision of the engine (src/entity.py), as functions of the    *)
(* instance and the arguments.  Its construction, its section 1 (the zone)  *)
(* and the assignments that end its two branches read as in the revision    *)
(* above; its clock-time parsing, its get_window, its forward search and    *)
(* its look at the previous window are its own.                             *)

\* time(*parts): one to four fields are hour, minute, second, microsecond; a
\* fifth field is taken as tzinfo and raises.  A microsecond is below the
\* resolution of the instants.
legacy_resolve_clock_time(parts, ref_date, tz) ==
    LET ints == [i \in DOMAIN parts |-> ParseInt(parts[i])]
        field(i) == IF i <= Len(parts) THEN Get(ints[i]) ELSE 0
        t == IF \E i \in DOMAIN ints : IsNone(ints[i]) THEN None
             ELSE IF Len(parts) \in 1..4 /\ field(4) \in 0..999999
                  THEN TimeOfDay(field(1), field(2), field(3))
             ELSE None
    IN  IF IsNone(t) THEN None ELSE Some(LocalToUtc(ref_date, Get(t), tz))

\* _resolve_time(config_val, ...); config_val None has no split and raises
legacy_resolve_time(config_val, ref_date, tz, sun_callback) ==
    IF IsNone(config_val) THEN None
    ELSE IF Get(config_val) \in {<<"sunrise">>, <<"sunset">>}
    THEN IF IsNone(sun_callback) THEN None
         ELSE CallSun(Get(sun_callback), Get(config_val)[1], ref_date)
    ELSE legacy_resolve_clock_time(Get(config_val), ref_date, tz)

legacy_get_window(ref_date, tz, sun_cb) ==
    LET s0 == legacy_resolve_time(configured_start, ref_date, tz, sun_cb)
        e0 == legacy_resolve_time(configured_end, ref_date, tz, sun_cb)
    IN  IF IsNone(s0) \/ IsNone(e0) THEN None
        ELSE LET s == Get(s0) + start_offset
                 e == Get(e0) + end_offset
             IN  Some([s |-> s, e |-> IF e <= s THEN e + Day ELSE e])

\* `while now_utc >= end_utc` ends after n advances: get_window has raised,
\* or now_utc is before the window's end.  The loop is followed for
\* MaxAdvance advances.
legacy_loop_ends(now_utc, target_date, n, tz, sun_cb) ==
    \/ n = MaxAdvance
    \/ IsNone(legacy_get_window(target_date + n, tz, sun_cb))
    \/ now_utc < Get(legacy_get_window(target_date + n, tz, sun_cb)).e

\* the first get_window call and the while loop: Optional [date, s, e]
legacy_forward_search(now_utc, target_date, tz, sun_cb) ==
    LET advances == {CHOOSE n \in 0..MaxAdvance :
                        /\ legacy_loop_ends(now_utc, target_date, n, tz, sun_cb)
                        /\ \A m \in 0..(n - 1) :
                               ~legacy_loop_ends(now_utc, target_date, m, tz, sun_cb)}
    IN  CHOOSE found \in
            UNION {{loop_result(target_date + n, window) :
                       window \in {legacy_get_window(target_date + n, tz, sun_cb)}} :
                   n \in advances} : TRUE

\* step C: the window of the day before target_date, whatever date the loop
\* has reached
legacy_previous_window(now_utc, target_date, found, tz, sun_cb) ==
    LET prev == legacy_get_window(target_date - 1, tz, sun_cb)
    IN  IF IsNone(prev) THEN None
        ELSE IF Get(prev).s <= now_utc /\ now_utc < Get(prev).e
        THEN prev
        ELSE Some([s |-> found.s, e |-> found.e])

legacy_after_search(now_utc, target_date, found, tz, sun_cb) ==
    IF IsNone(found) THEN None
    ELSE IF now_utc < Get(found).s
    THEN legacy_previous_window(now_utc, target_date, Get(found), tz, sun_cb)
    ELSE Some([s |-> Get(found).s, e |-> Get(found).e])

legacy_root_window(now_utc, tz, sun_cb) ==
    CHOOSE w \in {legacy_after_search(now_utc, LocalDate(now_utc, tz), found, tz, sun_cb) :
                     found \in {legacy_forward_search(now_utc, LocalDate(now_utc, tz),
                                                      tz, sun_cb)}} : TRUE

legacy_root_update(self, now_utc, tz, sun_cb) ==
    CHOOSE r \in {root_store(self, now_utc, w) :
                     w \in {legacy_root_window(now_utc, tz, sun_cb)}} : TRUE

\* datetime.fromisoformat(parent_attributes.get(key)): None raises TypeError
legacy_fromisoformat(str) == IF IsNone(str) THEN None ELSE fromisoformat(Get(str))

legacy_child_update(self, now_utc, parent_attributes) ==
    IF DictFalsy(parent_attributes)
    THEN [ok |-> FALSE, self |-> self]
    ELSE
    LET attrs == Get(parent_attributes)
        parent_tz == DictGet(attrs, "timezone")
        self1 == IF StrFalsy(parent_tz) THEN self
                 ELSE [self EXCEPT !.resolved_timezone_str = parent_tz]
        p_start == legacy_fromisoformat(DictGet(attrs, "start_time_utc"))
        p_end == legacy_fromisoformat(DictGet(attrs, "end_time_utc"))
    IN  IF IsNone(p_start) \/ IsNone(p_end)
        THEN [ok |-> FALSE, self |-> self1]
        ELSE child_store(self1, now_utc, Get(p_start), Get(p_end))

legacy_update_result(self, now_utc, default_tz, sun_cb, parent_attributes) ==
    LET self0 == IF ~is_child
                 THEN [self EXCEPT !.resolved_timezone_str =
                          IF StrFalsy(configured_timezone_str)
                          THEN Some(default_tz)
                          ELSE configured_timezone_str]
                 ELSE self
    IN  IF is_child
        THEN legacy_child_update(self0, now_utc, parent_attributes)
        ELSE legacy_root_update(self0, now_utc, target_timezone(default_tz), sun_cb)

----------------------------------------------------------------------------
(* The two revisions side by side: sensors updated over three days, with    *)
(* time strings of one to four fields and a solar callback without events   *)
(* on one date.                                                             *)

MaxRevisionTick == 35

RevisionNows == {Day0 * Day + k * Step : k \in 0..MaxRevisionTick}

RevisionSpecs ==
    {<<Some(<<"08", "00">>), Some(<<"10", "00", "00">>)>>,
     <<Some(<<"22", "00">>), Some(<<"06", "00">>)>>,
     <<Some(<<"08">>), Some(<<"10", "00", "00">>)>>,
     <<Some(<<"08", "00">>), Some(<<"10", "00", "00", "00">>)>>,
     <<Some(<<"25">>), Some(<<"10", "00", "00">>)>>,
     <<Some(<<"sunrise">>), Some(<<"sunset">>)>>,
     <<None, Some(<<"10", "00", "00">>)>>}

InitRevisions ==
    /\ \/ /\ is_child = FALSE
          /\ \E sp \in RevisionSpecs : configured_start = sp[1] /\ configured_end = sp[2]
          /\ \E off \in {<<0, 0>>, <<0, 26>>} :
                 start_offset = off[1] * Hour /\ end_offset = off[2] * Hour
          /\ configured_timezone_str \in {None, Some("America/Regina")}
          /\ start_ref = "start"
          /\ end_ref = "end"
          /\ default_timezone = "UTC"
          /\ sun_event_callback \in SunCallbacks
       \/ /\ InitChild
          /\ end_ref = "end"
          /\ default_timezone = "UTC"
          /\ sun_event_callback = None
    /\ InitComputed
    /\ NoWrapper

UpdateRevisions ==
    /\ \E now_utc \in (IF is_child THEN ChildNows ELSE RevisionNows),
          parent_attributes \in (IF is_child THEN ParentAttributes ELSE {None}) :
           update_boundaries(now_utc, parent_attributes)
    /\ UNCHANGED <<wrapper, flow, search>>

NextRevisions == UpdateRevisions

SpecRevisions == InitRevisions /\ [][NextRevisions]_vars

\* the forward search of the call made in this step ends before MaxAdvance
\* advances
SearchWithinBound ==
    \/ is_child
    \/ \E n \in 0..(MaxAdvance - 1) :
           loop_ends(Get(last').now_utc,
                     LocalDate(Get(last').now_utc, target_timezone(default_timezone)),
                     n, target_timezone(default_timezone), sun_event_callback)

\* the older revision, called on the instance as it is before this step with
\* the arguments of this step, returns what the call has returned and leaves
\* the Computed State the call has left
RevisionsAgreeOnStep ==
    \A r \in {legacy_update_result(Self, Get(last').now_utc, default_timezone,
                                   sun_event_callback, Get(last').parent_attributes)} :
        /\ r.ok = Get(last').success
        /\ r.self = Self'

ParsedAlike(config_val) ==
    \/ IsNone(config_val)
    \/ Get(config_val) \in {<<"sunrise">>, <<"sunset">>}
    \/ Len(Get(config_val)) \in {2, 3}

\* when the forward search of this step's call has advanced and now is before
\* the start of the window found, the window of the day before the date of
\* now and the window of the day before the date found both resolve or both
\* do not
PreviousLookupAlike ==
    \/ is_child
    \/ \A found \in {forward_search(
                        Get(last').now_utc,
                        LocalDate(Get(last').now_utc, target_timezone(default_timezone)),
                        target_timezone(default_timezone), sun_event_callback)} :
           \/ IsNone(found)
           \/ Get(last').now_utc >= Get(found).s
           \/ IsNone(get_window(Get(found).date - 1,
                                target_timezone(default_timezone), sun_event_callback))
              = IsNone(get_window(
                           LocalDate(Get(last').now_utc,
                                     target_timezone(default_timezone)) - 1,
                           target_timezone(default_timezone), sun_event_callback))

C30_RevisionsAgreeOnAnyFields ==
    [][(SearchWithinBound /\ PreviousLookupAlike) => RevisionsAgreeOnStep]_vars

\* as C30_RevisionsAgreeOnCommonInputs, whatever the lookups of the previous
\* window give
C30_RevisionsAgreeOnAnyLookup ==
    [][(/\ SearchWithinBound
        /\ ParsedAlike(configured_start)
        /\ ParsedAlike(configured_end)) => RevisionsAgreeOnStep]_vars

TransitionOfStoredWindow ==
    /\ BothSet
    /\ Get(next_update_utc) \in {Get(calculated_start_utc),
                                 Get(calculated_end_utc),
                                 Get(calculated_start_utc) + Day}

\* C32: in every reachable state the next transition is unset exactly when the
\* boundaries are unset, and when set it is the start, the end or the start
\* plus 24 hours of the boundaries currently stored.
C32_TransitionBelongsToWindow ==
    /\ IsNone(next_update_utc) <=> IsNone(calculated_start_utc)
    /\ IsNone(next_update_utc) <=> IsNone(calculated_end_utc)
    /\ ~IsNone(next_update_utc) => TransitionOfStoredWindow

\* C33: after every successful update at now, in root and in child mode, the
\* next transition is strictly later than now.
C33_TransitionAfterNow ==
    Succeeded => /\ ~IsNone(next_update_utc)
                 /\ Get(next_update_utc) > Get(last).now_utc

(***************************************************************************)
(* Identical start and end specs                                           *)
(***************************************************************************)

\* a root sensor whose start and end are the same clock time, with no offsets
SameInstantRoot ==
    /\ ClockRoot
    /\ SecondsOfDay(configured_start) = SecondsOfDay(configured_end)

ClockTimeRoot ==
    /\ ~is_child
    /\ IsClockTime(configured_start) /\ IsClockTime(configured_end)

\* two successive successful updates, the second at an instant not before
\* the first
SuccessiveUpdates ==
    /\ Succeeded /\ Succeeded'
    /\ Get(last').now_utc >= Get(last).now_utc

\* C34: for a root sensor with clock-time specs, across successive successful
\* updates at non-decreasing instants, the start boundary and the end
\* boundary never decrease.
C34_BoundariesNeverDecrease ==
    [][(ClockTimeRoot /\ SuccessiveUpdates) =>
          /\ Get(calculated_start_utc') >= Get(calculated_start_utc)
          /\ Get(calculated_end_utc') >= Get(calculated_end_utc)]_vars

(***************************************************************************)
(* The root calculation of update_boundaries, statement by statement.      *)
(* `search` holds the locals of the call in progress: now_utc,             *)
(* current_ref_date, the window held (None once get_window has raised),    *)
(* the number of advances made, and the position of the call: "loop" at    *)
(* the head of the for loop, "after" behind it (or in the except clause),  *)
(* "returned" once the call has returned.                                  *)
(***************************************************************************)

\* as range_left, for a loop with no bound: `while now_utc >= end_utc`
range_left_always(i) == TRUE

\* `for _ in range(365)` has an iteration left after i iterations
range_left(i) == i < MaxAdvance

\* the instants of the calls examined step by step
SearchStep == 10 * Hour

MaxSearchTick == 1

SearchNows == {Day0 * Day + k * SearchStep : k \in 0..MaxSearchTick}

\* solar callbacks of the calls examined step by step
SearchSunCallbacks == {Some("mock_sun_callback"), Some("polar_sun_callback")}

InitSearch ==
    /\ is_child = FALSE
    /\ \E sp \in OfflineSpecs : configured_start = sp[1] /\ configured_end = sp[2]
    /\ \E off \in OfflineOffsetDays :
           start_offset = off[1] * Day /\ end_offset = off[2] * Day
    /\ configured_timezone_str \in {None, Some("America/Regina")}
    /\ start_ref = "start"
    /\ end_ref = "end"
    /\ default_timezone = "UTC"
    /\ sun_event_callback \in SearchSunCallbacks
    /\ InitComputed
    /\ NoWrapper

\* a call is in progress
InCall == ~IsNone(search) /\ Get(search).pc # "returned"

\* update_boundaries(now_utc) is entered: section 1 stores the zone name and
\* resolves the zone, and current_ref_date and the first window are set
CallRoot ==
    /\ ~InCall
    /\ \E now_utc \in SearchNows :
         \E tz \in {target_timezone(default_timezone)} :
           \E window \in {get_window(LocalDate(now_utc, tz), tz, sun_event_callback)} :
             search' = Some([pc |-> IF IsNone(window) THEN "after" ELSE "loop",
                             now_utc |-> now_utc,
                             current_ref_date |-> LocalDate(now_utc, tz),
                             window |-> window,
                             i |-> 0])
    /\ resolved_timezone_str' = IF StrFalsy(configured_timezone_str)
                                THEN Some(default_timezone)
                                ELSE configured_timezone_str
    /\ UNCHANGED <<config, calculated_start_utc, calculated_end_utc, next_update_utc,
                   host, last, wrapper, flow>>

\* one pass through the head of the for loop: the range is exhausted, or the
\* window held has not ended (break), or the reference date advances by one
\* day and its window is computed (get_window may raise)
LoopStep ==
    /\ ~IsNone(search) /\ Get(search).pc = "loop"
    /\ LET l == Get(search)
       IN  IF ~range_left(l.i) \/ l.now_utc < Get(l.window).e
           THEN search' = Some([l EXCEPT !.pc = "after"])
           ELSE \E tz \in {target_timezone(default_timezone)} :
                  \E window \in {get_window(l.current_ref_date + 1, tz,
                                            sun_event_callback)} :
                    search' = Some([pc |-> IF IsNone(window) THEN "after" ELSE "loop",
                                    now_utc |-> l.now_utc,
                                    current_ref_date |-> l.current_ref_date + 1,
                                    window |-> window,
                                    i |-> l.i + 1])
    /\ UNCHANGED <<config, computed, host, last, wrapper, flow>>

\* the lines after the loop (the check of the previous day's window, the
\* assignments, _calculate_next_update) or the except clause, and the return
Return ==
    /\ ~IsNone(search) /\ Get(search).pc = "after"
    /\ LET l == Get(search)
           tz == target_timezone(default_timezone)
       IN  \E r \in {root_store(Self, l.now_utc,
                                after_search(l.now_utc,
                                             loop_result(l.current_ref_date, l.window),
                                             tz, sun_event_callback))} :
             /\ calculated_start_utc' = r.self.calculated_start_utc
             /\ calculated_end_utc' = r.self.calculated_end_utc
             /\ next_update_utc' = r.self.next_update_utc
             /\ last' = Some([now_utc |-> l.now_utc,
                              parent_attributes |-> None,
                              success |-> r.ok])
    /\ search' = Some([Get(search) EXCEPT !.pc = "returned"])
    /\ UNCHANGED <<config, resolved_timezone_str, host, wrapper, flow>>

NextSearch == CallRoot \/ LoopStep \/ Return

\* the call is synchronous code: once entered it runs on to its return
SpecSearch ==
    /\ InitSearch /\ [][NextSearch]_vars
    /\ WF_vars(LoopStep) /\ WF_vars(Return)

\* the search made step by step is left with the window forward_search gives
SearchAgrees ==
    (~IsNone(search) /\ Get(search).pc = "after") =>
        LET l == Get(search)
            tz == target_timezone(default_timezone)
        IN  loop_result(l.current_ref_date, l.window)
              = forward_search(l.now_utc, LocalDate(l.now_utc, tz), tz,
                               sun_event_callback)

\* C31: every root update_boundaries call returns, and its forward search
\* advances the reference date at most 365 times, whatever the solar callback
\* and the offsets are.
C31_SearchTerminates ==
    /\ [](~IsNone(search) => Get(search).i <= MaxAdvance)
    /\ [](~IsNone(search) =>
            Get(search).current_ref_date
              = LocalDate(Get(search).now_utc, target_timezone(default_timezone))
                + Get(search).i)
    /\ []SearchAgrees
    /\ InCall ~> ~InCall

\* a call that has made all its 365 advances and has returned
C31_Witness ==
    /\ ~IsNone(search) /\ Get(search).pc = "returned"
    /\ Get(search).i = MaxAdvance
    /\ Called

====
